---- MODULE Spec2Model ----
(***************************************************************************)
(* A model of solution.py: the BincomPythonTest object (dataset loading,  *)
(* frequency table, descriptive statistics, persistence), run_analysis,   *)
(* recursive_search, sum_fibonacci and analyze_binary_sequence_puzzle.    *)
(*                                                                         *)
(* Representation of Python values:                                        *)
(*   - a str token is a TLA+ string; a piece of a comma-separated cell is  *)
(*     a record [lead, word, trail]: the word and the number of blanks    *)
(*     around it, so that str.strip() is not the identity;                 *)
(*   - a Counter (an insertion-ordered dict) is a sequence of             *)
(*     <<key, count>> pairs in insertion order; None is NoneVal;           *)
(*   - a bit string is a sequence of "0"/"1" characters;                   *)
(*   - a float quotient p / q is the pair <<p, q>>;                        *)
(*   - the outcome of a call is [op, arg, exc, val]: exc names the         *)
(*     exception that left the call ("none" when it returned), val is the *)
(*     returned value as a tuple.                                          *)
(***************************************************************************)
EXTENDS Integers, Sequences, FiniteSets, TLC

VARIABLES
    \* the file system and the database the object talks to
    fs,              \* [status, rows]: the file html_file names
    db,              \* [table, fault]: the committed rows of color_frequencies
                     \* (NoneVal: no such table) and the call of the last
                     \* save attempt that raised ("none": none did)
    \* BincomPythonTest instance
    html_file,       \* self.html_file
    colors,          \* self.colors
    color_counter,   \* self.color_counter
    ret,             \* outcome of the last method call
    \* run_analysis / main
    pc,              \* position in main / run_analysis
    out,             \* the report lines printed so far (their labels)
    success,         \* local `success` of run_analysis
    \* recursive_search
    numbers, target, start, end, result,
    \* sum_fibonacci
    n,               \* the argument of the last call
    iters,           \* executions of the loop body during that call
    \* analyze_binary_sequence_puzzle
    input_sequence, output_sequence, calculated_output, matches

envVars    == <<fs, db>>
objVars    == <<html_file, colors, color_counter, ret>>
runVars    == <<pc, out, success>>
searchVars == <<numbers, target, start, end, result>>
fibVars    == <<n, iters>>
puzzleVars == <<input_sequence, output_sequence, calculated_output, matches>>
vars == <<envVars, objVars, runVars, searchVars, fibVars, puzzleVars>>

(***************************************************************************)
(* Bounds of the model.                                                    *)
(***************************************************************************)
MaxFile == 3        \* pieces and unparsable rows in the input file
MaxLen  == 4        \* length of the list handed to recursive_search
MaxVal  == 3        \* list elements are 1..MaxVal, targets 0..MaxVal+1
MaxN    == 30       \* arguments of sum_fibonacci are -MaxN..MaxN
MaxBits == 5        \* length of the pattern checker's input

\* None where a table (a sequence of <<key, count>>) is expected
NoneVal == << <<"None", 0>> >>

(***************************************************************************)
(* Sequence helpers.                                                       *)
(***************************************************************************)
RECURSIVE SumSeq(_)
SumSeq(s) == IF s = <<>> THEN 0 ELSE Head(s) + SumSeq(Tail(s))

RECURSIVE Flatten(_)
Flatten(ss) == IF ss = <<>> THEN <<>> ELSE Head(ss) \o Flatten(Tail(ss))

Abs(x) == IF x < 0 THEN -x ELSE x

(***************************************************************************)
(* Tokens. TokenOrder lists every token of the model in Python's str      *)
(* ordering (code point order), which get_median_color's sort() uses.     *)
(***************************************************************************)
TokenOrder == <<"", "ARSH", "ASH", "BLACK", "BLEW", "BLUE", "BROWN", "CREAM",
                "GREEN", "ORANGE", "PINK", "RED", "WHITE", "YELLOW", "red">>

Rank(t) == CHOOSE k \in 1..Len(TokenOrder) : TokenOrder[k] = t

Piece(l, w, t) == [lead |-> l, word |-> w, trail |-> t]

\* str.strip(): the blanks around the word are dropped
strip(p) == p.word

\* str.upper() on the tokens of the model
upper(t) == IF t = "red" THEN "RED" ELSE t

\* colors_str.split(',') followed by strip() of every piece (lines 43, 60)
SplitStrip(cell) == [k \in 1..Len(cell) |-> strip(cell[k])]

\* _clean_colors: typo fixes, then blanks dropped
FixTypo(color) ==
    IF color = "BLEW" THEN "BLUE"
    ELSE IF color = "ARSH" THEN "ASH"
    ELSE color

_clean_colors(color_list) ==
    SelectSeq([k \in 1..Len(color_list) |-> FixTypo(color_list[k])],
              LAMBDA color : color # "")

(***************************************************************************)
(* The hardcoded dataset (lines 50-56): each day's string as the pieces   *)
(* split(',') yields, every piece but the first with one leading blank.   *)
(***************************************************************************)
DayCell(words) == [k \in 1..Len(words) |-> Piece(IF k = 1 THEN 0 ELSE 1, words[k], 0)]

color_data == <<
    DayCell(<<"GREEN", "YELLOW", "GREEN", "BROWN", "BLUE", "PINK", "BLUE", "YELLOW", "ORANGE", "CREAM",
              "ORANGE", "RED", "WHITE", "BLUE", "WHITE", "BLUE", "BLUE", "BLUE", "GREEN">>),
    DayCell(<<"ARSH", "BROWN", "GREEN", "BROWN", "BLUE", "BLUE", "BLEW", "PINK", "PINK", "ORANGE",
              "ORANGE", "RED", "WHITE", "BLUE", "WHITE", "WHITE", "BLUE", "BLUE", "BLUE">>),
    DayCell(<<"GREEN", "YELLOW", "GREEN", "BROWN", "BLUE", "PINK", "RED", "YELLOW", "ORANGE", "RED",
              "ORANGE", "RED", "BLUE", "BLUE", "WHITE", "BLUE", "BLUE", "WHITE", "WHITE">>),
    DayCell(<<"BLUE", "BLUE", "GREEN", "WHITE", "BLUE", "BROWN", "PINK", "YELLOW", "ORANGE", "CREAM",
              "ORANGE", "RED", "WHITE", "BLUE", "WHITE", "BLUE", "BLUE", "BLUE", "GREEN">>),
    DayCell(<<"GREEN", "WHITE", "GREEN", "BROWN", "BLUE", "BLUE", "BLACK", "WHITE", "ORANGE", "RED",
              "RED", "RED", "WHITE", "BLUE", "WHITE", "BLUE", "BLUE", "BLUE", "WHITE">>) >>

extract_colors_from_hardcoded ==
    _clean_colors(Flatten([d \in 1..Len(color_data) |-> SplitStrip(color_data[d])]))

(***************************************************************************)
(* The input file. fs.status is "missing", "denied" (open() raises) or    *)
(* "ok"; fs.rows is its content as a sequence of rows, a row being either *)
(* text the row pattern of line 37 matches ([ok |-> TRUE, cell |-> the    *)
(* pieces of the second <td>]) or text it does not match (ok = FALSE).    *)
(***************************************************************************)
OpenRaises(f) == f.status # "ok"

\* re.findall(pattern, html_content): the cells of the rows that match
re_findall(rows) == SelectSeq(rows, LAMBDA r : r.ok)

extract_colors_from_file(f) ==
    LET matches_ == re_findall(f.rows)
    IN  _clean_colors(Flatten([k \in 1..Len(matches_) |-> SplitStrip(matches_[k].cell)]))

(***************************************************************************)
(* collections.Counter(iterable): one item per distinct element, in the    *)
(* order in which the elements are first met, with the number of times the *)
(* element is met.                                                         *)
(***************************************************************************)
Keys(counter) == {counter[k][1] : k \in 1..Len(counter)}

\* the element at position k of s is met there for the first time
FirstSeen(s, k) == \A j \in 1..(k - 1) : s[j] # s[k]

\* the number of elements of s equal to x
CountOf(s, x) == Cardinality({k \in 1..Len(s) : s[k] = x})

Counter(s) ==
    SelectSeq([k \in 1..Len(s) |->
                  <<s[k], IF FirstSeen(s, k) THEN CountOf(s, s[k]) ELSE 0>>],
              LAMBDA item : item[2] > 0)

\* Counter.update(iterable) on `counter`: the counts of s are added, new
\* keys go to the end
CounterUpdate(counter, s) ==
    LET more == Counter(s)
        new  == SelectSeq(more, LAMBDA it : it[1] \notin Keys(counter))
    IN  [k \in 1..Len(counter) |-> <<counter[k][1], counter[k][2] + CountOf(s, counter[k][1])>>]
        \o new

\* Counter.get(key, 0)
CounterGet(counter, key) ==
    IF key \in Keys(counter)
    THEN LET k == CHOOSE k \in 1..Len(counter) : counter[k][1] = key IN counter[k][2]
    ELSE 0

Values(counter) == [k \in 1..Len(counter) |-> counter[k][2]]

(***************************************************************************)
(* Descriptive statistics (lines 80-125). Each operator gives the outcome  *)
(* [exc, val] of the method on an instance whose fields are `cs` (colors)  *)
(* and `cc` (color_counter).                                               *)
(***************************************************************************)
Returns(v) == [exc |-> "none", val |-> v]
Raises(e)  == [exc |-> e, val |-> <<>>]

\* most_common(1) keeping the last maximal item (>= for >)
most_common_1_last(cc) ==
    IF cc = <<>> THEN <<>>
    ELSE LET k == CHOOSE k \in 1..Len(cc) :
                    /\ \A j \in 1..Len(cc) : cc[j][2] <= cc[k][2]
                    /\ \A j \in (k + 1)..Len(cc) : cc[j][2] < cc[k][2]
         IN  <<cc[k]>>

\* Counter.most_common(1): max(items, key = count), the first maximal item
most_common_1(cc) ==
    IF cc = <<>> THEN <<>>
    ELSE LET k == CHOOSE k \in 1..Len(cc) :
                    /\ \A j \in 1..Len(cc) : cc[j][2] <= cc[k][2]
                    /\ \A j \in 1..(k - 1) : cc[j][2] < cc[k][2]
         IN  <<cc[k]>>

get_most_common_color(cs, cc) ==
    IF cc = NoneVal THEN Raises("AttributeError")
    ELSE LET most_common == most_common_1(cc)
         IN  IF most_common = <<>> THEN Raises("IndexError")
             ELSE Returns(most_common[1])

\* the loop of lines 94-98 over items k..Len(cc); diff is kept scaled by
\* unique_colors (> 0), min_diff = -1 stands for float('inf')
RECURSIVE MeanLoop(_, _, _, _, _, _)
MeanLoop(cc, k, total_colors, unique_colors, closest_color, min_diff) ==
    IF k > Len(cc) THEN closest_color
    ELSE LET diff == Abs(cc[k][2] * unique_colors - total_colors)
         IN  IF min_diff = -1 \/ diff < min_diff
             THEN MeanLoop(cc, k + 1, total_colors, unique_colors, cc[k][1], diff)
             ELSE MeanLoop(cc, k + 1, total_colors, unique_colors, closest_color, min_diff)

get_mean_color(cs, cc) ==
    IF cc = NoneVal THEN Raises("TypeError")
    ELSE LET total_colors  == Len(cs)
             unique_colors == Len(cc)
         IN  IF unique_colors = 0 THEN Raises("ZeroDivisionError")
             ELSE Returns(<<MeanLoop(cc, 1, total_colors, unique_colors, "None", -1),
                            total_colors, unique_colors>>)

ExpandedColors(cc) == Flatten([k \in 1..Len(cc) |-> [j \in 1..cc[k][2] |-> cc[k][1]]])

get_median_color(cs, cc) ==
    IF cc = NoneVal THEN Raises("AttributeError")
    ELSE LET expanded_colors == SortSeq(ExpandedColors(cc), LAMBDA x, y : Rank(x) < Rank(y))
             middle_idx      == Len(expanded_colors) \div 2
         IN  IF middle_idx + 1 > Len(expanded_colors) THEN Raises("IndexError")
             ELSE Returns(<<expanded_colors[middle_idx + 1]>>)

\* statistics.variance: sum((x - mean)^2) / (n - 1), as the quotient
\* (n * sum(x^2) - sum(x)^2) / (n * (n - 1))
get_color_variance(cs, cc) ==
    IF cc = NoneVal THEN Raises("AttributeError")
    ELSE LET frequencies == Values(cc)
             cnt         == Len(frequencies)
             s1          == SumSeq(frequencies)
             s2          == SumSeq([k \in 1..cnt |-> frequencies[k] * frequencies[k]])
         IN  IF cnt > 1 THEN Returns(<<cnt * s2 - s1 * s1, cnt * (cnt - 1)>>)
             ELSE Returns(<<0, 1>>)

get_color_probability(cs, cc, target_color) ==
    IF cc = NoneVal THEN Raises("AttributeError")
    ELSE LET target_count == CounterGet(cc, upper(target_color))
         IN  IF Len(cs) = 0 THEN Raises("ZeroDivisionError")
             ELSE Returns(<<target_count, Len(cs)>>)

(***************************************************************************)
(* load_data (lines 15-29): the list it assigns to self.colors.            *)
(***************************************************************************)
Truthy(x) == x \notin {"None", ""}

LoadedColors(hf, f) ==
    IF Truthy(hf)
    THEN IF OpenRaises(f) THEN extract_colors_from_hardcoded
         ELSE extract_colors_from_file(f)
    ELSE extract_colors_from_hardcoded

\* load_data with the table updated (Counter.update) instead of rebuilt
load_data_updates_table ==
    LET loaded == LoadedColors(html_file, fs)
    IN  /\ colors' = loaded
        /\ color_counter' = CounterUpdate(IF color_counter = NoneVal THEN <<>> ELSE color_counter,
                                          loaded)
        /\ ret' = [op |-> "load_data", arg |-> <<>>, exc |-> "none", val |-> <<Len(loaded)>>]

load_data ==
    LET loaded == LoadedColors(html_file, fs)
    IN  /\ colors' = loaded
        /\ color_counter' = Counter(loaded)
        /\ ret' = [op |-> "load_data", arg |-> <<>>, exc |-> "none", val |-> <<Len(loaded)>>]

(***************************************************************************)
(* save_to_postgresql (lines 127-168). `fail` names the database call that *)
(* raises during this attempt ("none": no call raises); db.fault keeps the *)
(* call that did raise. Every exception is caught                          *)
(* by line 166 and turned into False. The table content changes only when *)
(* commit() has returned.                                                  *)
(***************************************************************************)
DbSteps == <<"connect", "cursor", "create", "delete", "insert", "commit", "close">>

StepNo(s) == CHOOSE k \in 1..Len(DbSteps) : DbSteps[k] = s

\* the first call that raises, given the counter: items() on None raises
\* AttributeError before the first insert; no insert runs on an empty table
FirstRaise(cc, fail) ==
    LET items_raises == cc = NoneVal
        at == IF fail = "none" THEN Len(DbSteps) + 1
              ELSE IF fail = "insert" /\ cc = <<>> THEN Len(DbSteps) + 1
              ELSE StepNo(fail)
    IN  IF items_raises /\ at >= StepNo("insert") THEN StepNo("insert") ELSE at

SaveReturns(cc, fail) == FirstRaise(cc, fail) > Len(DbSteps)

SaveCommits(cc, fail) == FirstRaise(cc, fail) > StepNo("commit")

\* save_to_postgresql without the except clause: a database error leaves it
save_to_postgresql_raises(fail) ==
    /\ db' = [table |-> IF SaveCommits(color_counter, fail) THEN color_counter ELSE db.table,
              fault |-> IF SaveReturns(color_counter, fail) THEN "none"
                        ELSE DbSteps[FirstRaise(color_counter, fail)]]
    /\ ret' = IF SaveReturns(color_counter, fail)
              THEN [op |-> "save_to_postgresql", arg |-> <<>>, exc |-> "none", val |-> <<TRUE>>]
              ELSE [op |-> "save_to_postgresql", arg |-> <<>>, exc |-> "Error", val |-> <<>>]
    /\ UNCHANGED <<colors, color_counter>>

save_to_postgresql(fail) ==
    /\ db' = [table |-> IF SaveCommits(color_counter, fail) THEN color_counter ELSE db.table,
              fault |-> IF SaveReturns(color_counter, fail) THEN "none"
                        ELSE DbSteps[FirstRaise(color_counter, fail)]]
    /\ ret' = [op |-> "save_to_postgresql", arg |-> <<>>, exc |-> "none",
               val |-> <<SaveReturns(color_counter, fail)>>]
    /\ UNCHANGED <<colors, color_counter>>

(***************************************************************************)
(* The statistics as methods: each sets the call's outcome and assigns     *)
(* nothing else.                                                            *)
(***************************************************************************)
NoCall == [op |-> "none", arg |-> <<>>, exc |-> "none", val |-> <<>>]

Outcome(op, arg, o) == [op |-> op, arg |-> arg, exc |-> o.exc, val |-> o.val]

GetMostCommonColor ==
    /\ ret' = Outcome("get_most_common_color", <<>>, get_most_common_color(colors, color_counter))
    /\ UNCHANGED <<colors, color_counter>>

GetMeanColor ==
    /\ ret' = Outcome("get_mean_color", <<>>, get_mean_color(colors, color_counter))
    /\ UNCHANGED <<colors, color_counter>>

\* get_median_color sorting self.colors in place instead of a copy
GetMedianColorSortsInPlace ==
    /\ ret' = Outcome("get_median_color", <<>>, get_median_color(colors, color_counter))
    /\ colors' = SortSeq(colors, LAMBDA x, y : Rank(x) < Rank(y))
    /\ UNCHANGED color_counter

GetMedianColor ==
    /\ ret' = Outcome("get_median_color", <<>>, get_median_color(colors, color_counter))
    /\ UNCHANGED <<colors, color_counter>>

GetColorVariance ==
    /\ ret' = Outcome("get_color_variance", <<>>, get_color_variance(colors, color_counter))
    /\ UNCHANGED <<colors, color_counter>>

GetColorProbability(target_color) ==
    /\ ret' = Outcome("get_color_probability", <<target_color>>,
                      get_color_probability(colors, color_counter, target_color))
    /\ UNCHANGED <<colors, color_counter>>

(***************************************************************************)
(* recursive_search (lines 170-195). An optional int is [some, v].         *)
(* SearchFrame is one invocation: it returns a value or makes the          *)
(* recursive call whose result it returns.                                 *)
(***************************************************************************)
NoInt == [some |-> FALSE, v |-> 0]
Some(x) == [some |-> TRUE, v |-> x]

\* numbers[k] of Python: 0-based, negative k counts from the end
Item(s, k) == IF k >= 0 THEN s[k + 1] ELSE s[Len(s) + k + 1]

\* recursive_search returning the index before the one it found
SearchFrameOffByOne(nums, tgt, st, en) ==
    LET e   == IF en.some THEN en.v ELSE Len(nums) - 1
        mid == (st + e) \div 2
    IN  IF st > e THEN [returns |-> TRUE, val |-> -1, start |-> st, end |-> Some(e)]
        ELSE IF Item(nums, mid) = tgt
             THEN [returns |-> TRUE, val |-> mid - 1, start |-> st, end |-> Some(e)]
        ELSE IF Item(nums, mid) > tgt
             THEN [returns |-> FALSE, val |-> 0, start |-> st, end |-> Some(mid - 1)]
        ELSE [returns |-> FALSE, val |-> 0, start |-> mid + 1, end |-> Some(e)]

\* recursive_search keeping mid in the left half (end = mid for mid - 1)
SearchFrameKeepsMid(nums, tgt, st, en) ==
    LET e   == IF en.some THEN en.v ELSE Len(nums) - 1
        mid == (st + e) \div 2
    IN  IF st > e THEN [returns |-> TRUE, val |-> -1, start |-> st, end |-> Some(e)]
        ELSE IF Item(nums, mid) = tgt
             THEN [returns |-> TRUE, val |-> mid, start |-> st, end |-> Some(e)]
        ELSE IF Item(nums, mid) > tgt
             THEN [returns |-> FALSE, val |-> 0, start |-> st, end |-> Some(mid)]
        ELSE [returns |-> FALSE, val |-> 0, start |-> mid + 1, end |-> Some(e)]

SearchFrame(nums, tgt, st, en) ==
    LET e   == IF en.some THEN en.v ELSE Len(nums) - 1
        mid == (st + e) \div 2
    IN  IF st > e THEN [returns |-> TRUE, val |-> -1, start |-> st, end |-> Some(e)]
        ELSE IF Item(nums, mid) = tgt
             THEN [returns |-> TRUE, val |-> mid, start |-> st, end |-> Some(e)]
        ELSE IF Item(nums, mid) > tgt
             THEN [returns |-> FALSE, val |-> 0, start |-> st, end |-> Some(mid - 1)]
        ELSE [returns |-> FALSE, val |-> 0, start |-> mid + 1, end |-> Some(e)]

RECURSIVE recursive_search(_, _, _, _)
recursive_search(nums, tgt, st, en) ==
    LET f == SearchFrame(nums, tgt, st, en)
    IN  IF f.returns THEN f.val ELSE recursive_search(nums, tgt, f.start, f.end)

(***************************************************************************)
(* generate_binary_and_convert (lines 197-207): int(binary_str, 2).        *)
(***************************************************************************)
Digit(c) == IF c = "1" THEN 1 ELSE 0

RECURSIVE int_base2(_)
int_base2(bits) ==
    IF bits = <<>> THEN 0
    ELSE 2 * int_base2(SubSeq(bits, 1, Len(bits) - 1)) + Digit(bits[Len(bits)])

(***************************************************************************)
(* sum_fibonacci (lines 209-226). A Python int is unbounded: it is kept as *)
(* [hi, lo] = hi * Base + lo.                                              *)
(***************************************************************************)
Base == 1000000000

Big(x) == [hi |-> x \div Base, lo |-> x % Base]

BigAdd(x, y) ==
    LET lo == x.lo + y.lo
    IN  [hi |-> x.hi + y.hi + lo \div Base, lo |-> lo % Base]

\* one iteration of the loop of lines 220-224
FibBody(s) ==
    LET nb == BigAdd(s.a, s.b)
    IN  [a |-> s.b, b |-> nb, total_sum |-> BigAdd(s.total_sum, nb), iters |-> s.iters + 1]

\* the loop of line 220 from i = k on; the test on t evaluates the state
\* after the iteration before the next one starts
RECURSIVE FibLoop(_, _, _)
FibLoop(s, k, cnt) ==
    IF k > cnt THEN s
    ELSE LET t == FibBody(s)
         IN  IF t.iters = 0 THEN t ELSE FibLoop(t, k + 1, cnt)

\* sum_fibonacci with range(2, n) for range(2, n + 1)
sum_fibonacci_short_range(cnt) ==
    IF cnt <= 0 THEN [total_sum |-> Big(0), iters |-> 0]
    ELSE LET s == FibLoop([a |-> Big(0), b |-> Big(1), total_sum |-> Big(1), iters |-> 0], 2, cnt - 1)
         IN  [total_sum |-> s.total_sum, iters |-> s.iters]

sum_fibonacci(cnt) ==
    IF cnt <= 0 THEN [total_sum |-> Big(0), iters |-> 0]
    ELSE LET s == FibLoop([a |-> Big(0), b |-> Big(1), total_sum |-> Big(1), iters |-> 0], 2, cnt)
         IN  [total_sum |-> s.total_sum, iters |-> s.iters]

(***************************************************************************)
(* analyze_binary_sequence_puzzle (lines 286-309).                         *)
(***************************************************************************)
Bits(str) == [k \in 1..Len(str) |-> IF str[k] = 1 THEN "1" ELSE "0"]

FixedInput ==
    Bits(<<0,1,0,1,1,0,1,0,1,1,1,0,1,0,1,1,0,1,1,1,0,1,1,0,1,0,0,0,1,1,1>>)

ExpectedOutput ==
    Bits(<<0,0,0,0,0,0,0,0,0,0,1,0,0,0,0,0,0,0,0,1,0,0,0,0,0,0,0,0,0,0,1>>)

\* input_sequence[k:k+3] for 0-based k
Window(inp, k) == SubSeq(inp, k + 1, IF k + 3 <= Len(inp) THEN k + 3 ELSE Len(inp))

\* the rule marking the last character of a "111" window, not the first
CalculatedOutputMarksEnd(inp) ==
    <<"0", "0">> \o [k \in 1..(IF Len(inp) - 2 > 0 THEN Len(inp) - 2 ELSE 0) |->
        IF Window(inp, k - 1) = <<"1", "1", "1">> THEN "1" ELSE "0"]

\* lines 297-306: one character per k in range(len - 2), then "0" * 2
CalculatedOutput(inp) ==
    [k \in 1..(IF Len(inp) - 2 > 0 THEN Len(inp) - 2 ELSE 0) |->
        IF Window(inp, k - 1) = <<"1", "1", "1">> THEN "1" ELSE "0"] \o <<"0", "0">>

analyze_binary_sequence_puzzle ==
    /\ calculated_output' = CalculatedOutput(input_sequence)
    /\ matches' = <<CalculatedOutput(input_sequence) = output_sequence>>
    /\ UNCHANGED <<input_sequence, output_sequence>>

(***************************************************************************)
(* The environment: the input file is created, written and deleted before  *)
(* the program makes its first call.                                       *)
(***************************************************************************)
FilePieces == {Piece(1, "BLEW", 0), Piece(0, "RED", 1), Piece(1, "", 0)}

RECURSIVE FileSize(_)
FileSize(rows) ==
    IF rows = <<>> THEN 0
    ELSE (IF Head(rows).ok THEN Len(Head(rows).cell) ELSE 1) + FileSize(Tail(rows))

\* the program has made no call yet
EnvQuiet == ret = NoCall /\ pc \in {"idle", "start"}

\* the file html_file names exists and can be written
EnvWritable == EnvQuiet /\ Truthy(html_file) /\ fs.status = "ok" /\ FileSize(fs.rows) < MaxFile

EnvInit ==
    /\ fs = [status |-> "missing", rows |-> <<>>]
    /\ db = [table |-> NoneVal, fault |-> "none"]

EnvNewRow ==
    /\ EnvWritable
    /\ \E p \in FilePieces :
         fs' = [fs EXCEPT !.rows = Append(@, [ok |-> TRUE, cell |-> <<p>>])]
    /\ UNCHANGED <<db, objVars, runVars, searchVars, fibVars, puzzleVars>>

EnvAppendPiece ==
    /\ EnvWritable
    /\ fs.rows # <<>>
    /\ fs.rows[Len(fs.rows)].ok
    /\ \E p \in FilePieces :
         fs' = [fs EXCEPT !.rows[Len(fs.rows)].cell = Append(@, p)]
    /\ UNCHANGED <<db, objVars, runVars, searchVars, fibVars, puzzleVars>>

EnvJunkRow ==
    /\ EnvWritable
    /\ fs' = [fs EXCEPT !.rows = Append(@, [ok |-> FALSE, cell |-> <<>>])]
    /\ UNCHANGED <<db, objVars, runVars, searchVars, fibVars, puzzleVars>>

\* the file is created (empty) or deleted
EnvSetStatus ==
    /\ EnvQuiet
    /\ Truthy(html_file)
    /\ fs' = [status |-> IF fs.status = "ok" THEN "missing" ELSE "ok", rows |-> <<>>]
    /\ UNCHANGED <<db, objVars, runVars, searchVars, fibVars, puzzleVars>>

Env == EnvNewRow \/ EnvAppendPiece \/ EnvJunkRow \/ EnvSetStatus

Faults == {"none"} \cup {DbSteps[k] : k \in 1..Len(DbSteps)}

(***************************************************************************)
(* Idle values of the variables a specification does not use.              *)
(***************************************************************************)
RunIdle == pc = "idle" /\ out = <<>> /\ success = <<>>

SearchIdle == numbers = <<>> /\ target = 0 /\ start = 0 /\ end = NoInt /\ result = NoInt

FibIdle == n = 0 /\ iters = 0

PuzzleIdle ==
    /\ input_sequence = FixedInput
    /\ output_sequence = ExpectedOutput
    /\ calculated_output = <<>>
    /\ matches = <<>>

ObjFresh == colors = <<>> /\ color_counter = NoneVal /\ ret = NoCall

(***************************************************************************)
(* SpecObj: an instance whose methods are called in any order.             *)
(***************************************************************************)
ProbeColors == {"red", "BLUE"}

\* the database failures tried on an instance called freely: none, one
\* before commit, commit itself, one after commit
ObjFaults == {"none", "connect", "commit", "close"}

InitObj ==
    /\ EnvInit
    /\ html_file \in {"None", "python_class_question.html"}
    /\ ObjFresh
    /\ RunIdle /\ SearchIdle /\ FibIdle /\ PuzzleIdle

ObjRest == <<runVars, searchVars, fibVars, puzzleVars>>

CallLoadData == load_data /\ UNCHANGED <<fs, db, html_file, ObjRest>>

CallGetMostCommonColor == GetMostCommonColor /\ UNCHANGED <<fs, db, html_file, ObjRest>>

CallGetMeanColor == GetMeanColor /\ UNCHANGED <<fs, db, html_file, ObjRest>>

CallGetMedianColor == GetMedianColor /\ UNCHANGED <<fs, db, html_file, ObjRest>>

CallGetColorVariance == GetColorVariance /\ UNCHANGED <<fs, db, html_file, ObjRest>>

CallGetColorProbability ==
    /\ \E target_color \in ProbeColors : GetColorProbability(target_color)
    /\ UNCHANGED <<fs, db, html_file, ObjRest>>

CallSaveToPostgresql ==
    /\ \E fail \in ObjFaults : save_to_postgresql(fail)
    /\ UNCHANGED <<fs, html_file, ObjRest>>

NextObj ==
    \/ Env
    \/ CallLoadData
    \/ CallGetMostCommonColor
    \/ CallGetMeanColor
    \/ CallGetMedianColor
    \/ CallGetColorVariance
    \/ CallGetColorProbability
    \/ CallSaveToPostgresql

SpecObj == InitObj /\ [][NextObj]_vars

(***************************************************************************)
(* SpecRun: main (lines 311-316): the instance is built with               *)
(* html_file = "python_class_question.html", run_analysis runs its steps   *)
(* in order, then analyze_binary_sequence_puzzle. An exception a step      *)
(* raises leaves run_analysis and main (pc = "raised").                    *)
(***************************************************************************)
DefaultN == 50

demo_list == SortSeq(<<13, 42, 7, 29, 56, 81, 23, 36, 91, 5>>, LAMBDA x, y : x < y)

search_num == 29

InitRun ==
    /\ EnvInit
    /\ html_file = "python_class_question.html"
    /\ ObjFresh
    /\ pc = "start" /\ out = <<>> /\ success = <<>>
    /\ SearchIdle /\ FibIdle /\ PuzzleIdle

\* a step printed `lines` and goes on to `to`, unless the call it made
\* raised
Goes(to, lines) ==
    /\ pc' = IF ret'.exc = "none" THEN to ELSE "raised"
    /\ out' = IF ret'.exc = "none" THEN out \o lines ELSE out

RunRest == <<searchVars, fibVars, puzzleVars>>

RunLoad ==
    /\ pc = "start"
    /\ load_data
    /\ Goes("dist", <<"header", "total">>)
    /\ UNCHANGED <<fs, db, html_file, success, RunRest>>

RunDist ==
    /\ pc = "dist"
    /\ pc' = "mean"
    /\ out' = out \o <<"distribution">>
    /\ UNCHANGED <<envVars, objVars, success, RunRest>>

RunMean ==
    /\ pc = "mean"
    /\ GetMeanColor
    /\ Goes("mode", <<"1">>)
    /\ UNCHANGED <<fs, db, html_file, success, RunRest>>

RunMode ==
    /\ pc = "mode"
    /\ GetMostCommonColor
    /\ Goes("median", <<"2">>)
    /\ UNCHANGED <<fs, db, html_file, success, RunRest>>

RunMedian ==
    /\ pc = "median"
    /\ GetMedianColor
    /\ Goes("variance", <<"3">>)
    /\ UNCHANGED <<fs, db, html_file, success, RunRest>>

RunVariance ==
    /\ pc = "variance"
    /\ GetColorVariance
    /\ Goes("prob", <<"4">>)
    /\ UNCHANGED <<fs, db, html_file, success, RunRest>>

RunProb ==
    /\ pc = "prob"
    /\ GetColorProbability("RED")
    /\ Goes("save", <<"5">>)
    /\ UNCHANGED <<fs, db, html_file, success, RunRest>>

RunSave ==
    /\ pc = "save"
    /\ \E fail \in Faults : save_to_postgresql(fail)
    /\ Goes("search", <<"6">>)
    /\ success' = ret'.val
    /\ UNCHANGED <<fs, html_file, RunRest>>

RunSearch ==
    /\ pc = "search"
    /\ numbers' = demo_list
    /\ target' = search_num
    /\ start' = 0
    /\ end' = NoInt
    /\ result' = Some(recursive_search(demo_list, search_num, 0, NoInt))
    /\ pc' = "binary"
    /\ out' = out \o <<"7">>
    /\ UNCHANGED <<envVars, objVars, success, fibVars, puzzleVars>>

RunBinary ==
    /\ pc = "binary"
    /\ \E binary_digits \in [1..4 -> {"0", "1"}] :
         ret' = [op |-> "generate_binary_and_convert", arg |-> <<>>, exc |-> "none",
                 val |-> <<binary_digits, int_base2(binary_digits)>>]
    /\ pc' = "fib"
    /\ out' = out \o <<"8">>
    /\ UNCHANGED <<envVars, html_file, colors, color_counter, success, RunRest>>

\* sum_fibonacci as a call: its argument, its loop count and its result r
SumFibonacci(cnt, r) ==
    /\ n' = cnt
    /\ iters' = r.iters
    /\ ret' = [op |-> "sum_fibonacci", arg |-> <<cnt>>, exc |-> "none",
               val |-> <<r.total_sum>>]

\* line 282: self.sum_fibonacci() with the default n
fib_sum == sum_fibonacci(DefaultN)

RunFib ==
    /\ pc = "fib"
    /\ SumFibonacci(DefaultN, fib_sum)
    /\ pc' = "puzzle"
    /\ out' = out \o <<"9">>
    /\ UNCHANGED <<envVars, html_file, colors, color_counter, success, searchVars, puzzleVars>>

RunPuzzle ==
    /\ pc = "puzzle"
    /\ analyze_binary_sequence_puzzle
    /\ pc' = "done"
    /\ out' = out \o <<"puzzle">>
    /\ UNCHANGED <<envVars, objVars, success, searchVars, fibVars>>

RunStep ==
    \/ RunLoad
    \/ RunDist
    \/ RunMean
    \/ RunMode
    \/ RunMedian
    \/ RunVariance
    \/ RunProb
    \/ RunSave
    \/ RunSearch
    \/ RunBinary
    \/ RunFib
    \/ RunPuzzle

NextRun == Env \/ RunStep

SpecRun == InitRun /\ [][NextRun]_vars

\* main is one synchronous thread: the step it is at is taken
FairRun == SpecRun /\ WF_vars(RunStep)

(***************************************************************************)
(* SpecSearch: recursive_search on any list and target, one invocation    *)
(* per step.                                                               *)
(***************************************************************************)
SeqsUpTo(S, len) == UNION {[1..k -> S] : k \in 0..len}

InitSearch ==
    /\ numbers \in SeqsUpTo(1..MaxVal, MaxLen) \cup {demo_list}
    /\ target \in (0..(MaxVal + 1)) \cup {search_num, 100}
    /\ start = 0
    /\ end = NoInt
    /\ result = NoInt
    /\ EnvInit /\ html_file = "None" /\ ObjFresh
    /\ RunIdle /\ FibIdle /\ PuzzleIdle

SearchCall ==
    /\ ~result.some
    /\ LET f == SearchFrame(numbers, target, start, end)
       IN  /\ start' = f.start
           /\ end' = f.end
           /\ result' = IF f.returns THEN Some(f.val) ELSE NoInt
    /\ UNCHANGED <<numbers, target, envVars, objVars, runVars, fibVars, puzzleVars>>

SpecSearch == InitSearch /\ [][SearchCall]_vars

FairSearch == SpecSearch /\ WF_vars(SearchCall)

(***************************************************************************)
(* SpecFib: sum_fibonacci on any argument.                                 *)
(***************************************************************************)
InitFib ==
    /\ n \in (-MaxN)..MaxN
    /\ iters = 0
    /\ EnvInit /\ html_file = "None" /\ ObjFresh
    /\ RunIdle /\ SearchIdle /\ PuzzleIdle

CallSumFibonacci ==
    /\ ret = NoCall
    /\ SumFibonacci(n, sum_fibonacci(n))
    /\ UNCHANGED <<envVars, html_file, colors, color_counter, runVars, searchVars, puzzleVars>>

SpecFib == InitFib /\ [][CallSumFibonacci]_vars

(***************************************************************************)
(* SpecPuzzle: the rule of analyze_binary_sequence_puzzle on any input.    *)
(***************************************************************************)
InitPuzzle ==
    /\ input_sequence \in SeqsUpTo({"0", "1"}, MaxBits) \cup {FixedInput}
    /\ output_sequence = ExpectedOutput
    /\ calculated_output = <<>>
    /\ matches = <<>>
    /\ EnvInit /\ html_file = "None" /\ ObjFresh
    /\ RunIdle /\ SearchIdle /\ FibIdle

CallPuzzle ==
    /\ matches = <<>>
    /\ analyze_binary_sequence_puzzle
    /\ UNCHANGED <<envVars, objVars, runVars, searchVars, fibVars>>

SpecPuzzle == InitPuzzle /\ [][CallPuzzle]_vars

(***************************************************************************)
(* Properties.                                                             *)
(***************************************************************************)
Hardcoded == extract_colors_from_hardcoded

\* the file exists and no row of it matches the row pattern
Malformed(f) == f.status = "ok" /\ re_findall(f.rows) = <<>>

Occurrences(s, x) == Cardinality({k \in 1..Len(s) : s[k] = x})

TokensOf(cs, cc) == {cs[k] : k \in 1..Len(cs)} \cup Keys(cc)

\* position of key t in the table's iteration order
Pos(cc, t) == CHOOSE k \in 1..Len(cc) : cc[k][1] = t

IsSorted(s) == \A k \in 1..(Len(s) - 1) : s[k] <= s[k + 1]

FullReport ==
    <<"header", "total", "distribution", "1", "2", "3", "4", "5", "6", "7", "8", "9", "puzzle">>

\* F(1) .. F(k) with F(1) = F(2) = 1, F(j) = F(j-1) + F(j-2)
RECURSIVE FibSeq(_)
FibSeq(k) ==
    IF k <= 0 THEN <<>>
    ELSE IF k <= 2 THEN [j \in 1..k |-> 1]
    ELSE LET s == FibSeq(k - 1) IN Append(s, s[k - 1] + s[k - 2])

Max(x, y) == IF x > y THEN x ELSE y

\* C1 (as claimed): after load_data on an instance with html_file set, when
\* the file is missing or holds no parsable row, the token list and the
\* frequency table are those of the hardcoded dataset (never empty) and no
\* error has left load_data.
C1_FallbackOnMissingOrMalformed ==
    (ret.op = "load_data" /\ Truthy(html_file) /\ (OpenRaises(fs) \/ Malformed(fs)))
        => /\ ret.exc = "none"
           /\ colors = Hardcoded
           /\ color_counter = Counter(Hardcoded)
           /\ color_counter # <<>>

\* C2: a failing save_to_postgresql returns False and raises nothing, and a
\* run that reached the persistence step with a non-empty dataset goes on
\* through the search, binary and Fibonacci steps to its end, having printed
\* the same report lines in the same order whether the save succeeded or not.
C2_PersistenceNonFatal ==
    /\ [](pc \in {"search", "binary", "fib", "puzzle", "done"}
            => success = <<db.fault = "none">>)
    /\ [][pc = "save" => (pc' = "search" /\ ret'.exc = "none"
                           /\ ret'.val = <<db'.fault = "none">>)]_vars
    /\ (pc = "save" /\ colors # <<>>) ~> (pc = "done" /\ out = FullReport)

C2_Witness == pc = "done" /\ success = <<FALSE>> /\ db.fault = "commit" /\ out = FullReport

\* C3: on an ascending list (duplicates allowed, possibly empty) and any
\* target, recursive_search with the default range returns: an index i with
\* numbers[i] = target when the target occurs, -1 when it does not.
C3_SearchCorrect ==
    /\ [](IsSorted(numbers) /\ result.some
            => IF \E k \in 1..Len(numbers) : numbers[k] = target
               THEN result.v \in 0..(Len(numbers) - 1) /\ numbers[result.v + 1] = target
               ELSE result.v = -1)
    /\ (IsSorted(numbers) => <>result.some)

C3_Witness ==
    /\ numbers = <<1, 2, 2, 3>> /\ target = 3 /\ result = Some(3)

\* C4: whenever load_data has completed, every token's count in the
\* frequency table is its number of occurrences in the token list, the
\* counts add up to the length of the list, and that length is what
\* load_data returned.
C4_TableCountsTokens ==
    color_counter # NoneVal
        => /\ \A t \in TokensOf(colors, color_counter) :
                CounterGet(color_counter, t) = Occurrences(colors, t)
           /\ Cardinality(Keys(color_counter)) = Len(color_counter)
           /\ SumSeq(Values(color_counter)) = Len(colors)
           /\ ret.op = "load_data" => (ret.exc = "none" /\ ret.val = <<Len(colors)>>)

C4_Witness ==
    /\ ret.op = "load_data"
    /\ Len(colors) = 3
    /\ Len(color_counter) = 2
    /\ db.table # NoneVal

\* The rule of the pattern checker on input inp with output o: same length,
\* o[i] = '1' exactly when inp[i..i+2] = "111" for i in 0..len-3, and the
\* last two characters '0'.
RuleHolds(inp, o) ==
    /\ Len(o) = Len(inp)
    /\ \A p \in 0..(Len(inp) - 3) :
         (o[p + 1] = "1") <=> (inp[p + 1] = "1" /\ inp[p + 2] = "1" /\ inp[p + 3] = "1")
    /\ \A p \in 0..(Len(inp) - 3) : o[p + 1] \in {"0", "1"}
    /\ \A p \in {Len(o) - 1, Len(o)} : p >= 1 => o[p] = "0"

C6_FibonacciSum ==
    ret.op = "sum_fibonacci"
        => /\ ret.arg = <<n>>
           /\ n >= 1 => /\ ret.val = <<Big(SumSeq(FibSeq(n)))>>
                        /\ ret.val = <<Big(FibSeq(n + 2)[n + 2] - 1)>>
           /\ n = 1 => ret.val = <<Big(1)>>
           /\ n = 2 => ret.val = <<Big(2)>>
           /\ n <= 0 => ret.val = <<Big(0)>>
           /\ iters = Max(n - 1, 0)

C6_Witness ==
    ret.op = "sum_fibonacci" /\ n = 10 /\ ret.val = <<Big(143)>> /\ iters = 9

\* C7: on a non-empty table get_most_common_color returns (token, count)
\* with count that token's count, no token has a larger count, and among
\* the tokens with that count the returned one comes first in the table's
\* iteration order (first insertion); for tokens [A, A, B] it is (A, 2).
C7_ModeFirstMaximal ==
    (ret.op = "get_most_common_color" /\ color_counter # NoneVal /\ color_counter # <<>>)
        => /\ ret.exc = "none"
           /\ Len(ret.val) = 2
           /\ ret.val[1] \in Keys(color_counter)
           /\ ret.val[2] = CounterGet(color_counter, ret.val[1])
           /\ ret.val[2] = Occurrences(colors, ret.val[1])
           /\ \A t \in Keys(color_counter) :
                /\ CounterGet(color_counter, t) <= ret.val[2]
                /\ CounterGet(color_counter, t) = ret.val[2]
                     => Pos(color_counter, ret.val[1]) <= Pos(color_counter, t)
           /\ colors = <<"RED", "RED", "BLUE">> => ret.val = <<"RED", 2>>

C7_Witness ==
    /\ ret.op = "get_most_common_color"
    /\ colors = <<"RED", "BLUE">>
    /\ ret.val = <<"RED", 1>>

\* C8 (as claimed): recursive_search([5,7,13,23,29,36,42,56,81,91], 29)
\* returns 3, and searching the same list for 100 returns -1.
C8_DemoIndexThree ==
    (numbers = <<5, 7, 13, 23, 29, 36, 42, 56, 81, 91>> /\ result.some)
        => /\ target = 29 => result.v = 3
           /\ target = 100 => result.v = -1

\* C8 (amended): recursive_search([5,7,13,23,29,36,42,56,81,91], 29)
\* returns 4, the 0-based index of 29, and searching the same list for 100
\* returns -1.
C8_DemoIndexFour ==
    (numbers = <<5, 7, 13, 23, 29, 36, 42, 56, 81, 91>> /\ result.some)
        => /\ target = 29 => result.v = 4
           /\ target = 100 => result.v = -1

C8_Witness ==
    /\ numbers = <<5, 7, 13, 23, 29, 36, 42, 56, 81, 91>>
    /\ target = 29
    /\ result = Some(4)

\* C9: once load_data has built the token list and the table, a call of a
\* statistic or of save_to_postgresql leaves both unchanged, and a
\* statistic called again returns what it returned.
StatOps == {"get_most_common_color", "get_mean_color", "get_median_color",
            "get_color_variance", "get_color_probability"}

C9_StatisticsReadOnly ==
    [][(color_counter # NoneVal /\ ret'.op \in StatOps \cup {"save_to_postgresql"})
          => /\ colors' = colors
             /\ color_counter' = color_counter
             /\ (ret.op = ret'.op /\ ret.arg = ret'.arg /\ ret.op \in StatOps)
                  => ret' = ret]_vars

C9_Witness ==
    /\ ret.op = "get_median_color"
    /\ ret.val = <<"RED">>
    /\ colors = <<"RED", "BLUE", "RED">>
    /\ db.fault = "commit"

\* C10 (as claimed): for the fixed input the computed output equals the
\* literal expected output, character for character: the check reports a
\* match.
C10_FixedExampleMatches ==
    (input_sequence = FixedInput /\ matches # <<>>)
        => /\ matches = <<TRUE>>
           /\ calculated_output = ExpectedOutput
====
